---- MODULE Spec2Model ----
(***************************************************************************)
(* A model of dcc-tiler: tiles and their symmetry orbit (src/src/tile.rs), *)
(* rectangular boards with constraint counts (src/src/board.rs), the board *)
(* graph (src/src/graph.rs) and the Tiler search engine                    *)
(* (src/src/cli/tiler.rs).                                                 *)
(*                                                                         *)
(* A Position is <<x, y>> with x the row and y the column, as in the code. *)
(* An Option is [some |-> FALSE] or [some |-> TRUE, val |-> v].            *)
(***************************************************************************)
EXTENDS Integers, Sequences, FiniteSets, TLC

VARIABLES
    tiles,              \* Tiler.tiles : TileCollection
    initial_board,      \* Tiler.initial_board
    graph,              \* Tiler.graph : Option<BoardGraph>
    hashOrder,          \* which iteration order the HashSets of this run have
    pc,                 \* the Tiler operation in progress and its position
    counter,            \* count_tilings_quick: counter
    stack,              \* count_tilings_quick: stack (the frontier)
    handles,            \* count_tilings_quick: the collected triples and each merge task's position
    step_stack,         \* count_tilings_quick: step_stack
    completed_board,    \* count_tilings_quick: completed_board
    g,                  \* generate_graph: the graph under construction
    gstack,             \* generate_graph: stack
    tstack,             \* get_single_tiling: stack
    completed_tilings,  \* get_single_tiling: completed_tilings
    limit,              \* get_single_tiling: limit
    result,             \* the operation that finished last and the value it returned
    quick_count,        \* the value the last count_tilings_quick returned
    generated,          \* number of generate_graph runs so far
    path1,              \* the boards of a sequence of place_tile steps from the initial board
    path2               \* the boards of a second such sequence

vars == <<tiles, initial_board, graph, hashOrder, pc, counter, stack, handles,
          step_stack, completed_board, g, gstack, tstack, completed_tilings,
          limit, result, quick_count, generated, path1, path2>>

----------------------------------------------------------------------------
(* Bounds *)

MaxCells == 8      \* a board has at most this many cells (width * height)
MaxLimit == 2      \* get_single_tiling is called with limit in 0..MaxLimit
MaxGenerated == 2  \* generate_graph is not started again after this many runs
MaxNodes == 2      \* a graph driven call by call holds at most this many nodes
MaxArg == 6        \* a board constructor called on its own gets arguments up to this
MaxDirections == 3 \* a tile given to a tile operation called on its own has at most this many directions
MaxFitCells == 4   \* a board given to tile_fits_at_position called on its own has at most this many cells
MaxShift == 1      \* two such boards are shifted by at most this many rows and columns
MaxPlaceCells == 6 \* a board given to place_tile called on its own has at most this many cells
MaxLiveCells == 6  \* cells of the initial boards of SpecLive

----------------------------------------------------------------------------
(* Generic helpers *)

None == [some |-> FALSE]

Some(v) == [some |-> TRUE, val |-> v]

RECURSIVE SetToSeq(_)
SetToSeq(S) ==
    IF S = {} THEN <<>>
    ELSE LET x == CHOOSE x \in S : TRUE
         IN  <<x>> \o SetToSeq(S \ {x})

Reverse(s) == [i \in 1..Len(s) |-> s[Len(s) + 1 - i]]

\* The order in which a HashSet hands out its elements: unspecified in Rust,
\* here one of two opposite orders selected by ho.
HashIter(S, ho) == IF ho = 0 THEN SetToSeq(S) ELSE Reverse(SetToSeq(S))

HashOrders == {0, 1}

RECURSIVE SumOver(_, _)
SumOver(f, S) ==
    IF S = {} THEN 0
    ELSE LET x == CHOOSE x \in S : TRUE
         IN  f[x] + SumOver(f, S \ {x})

Range(s) == {s[i] : i \in 1..Len(s)}

Last(s) == s[Len(s)]

----------------------------------------------------------------------------
(* tile.rs *)

Direction == {"Up", "Down", "Left", "Right", "UpLeft", "UpRight", "DownRight", "DownLeft"}

opposite(d) ==
    CASE d = "Up" -> "Down"
      [] d = "Right" -> "Left"
      [] d = "Down" -> "Up"
      [] d = "Left" -> "Right"
      [] d = "UpLeft" -> "DownRight"
      [] d = "DownRight" -> "UpLeft"
      [] d = "UpRight" -> "DownLeft"
      [] d = "DownLeft" -> "UpRight"

\* rotate with the bug "the turn is counter-clockwise".
rotate_ccw(d) ==
    CASE d = "Up" -> "Left"
      [] d = "Left" -> "Down"
      [] d = "Down" -> "Right"
      [] d = "Right" -> "Up"
      [] d = "UpLeft" -> "DownLeft"
      [] d = "DownLeft" -> "DownRight"
      [] d = "DownRight" -> "UpRight"
      [] d = "UpRight" -> "UpLeft"

\* rotate with the bug "Left => Left": one arm of the match returns its input.
rotate_stuck(d) ==
    CASE d = "Up" -> "Right"
      [] d = "Right" -> "Down"
      [] d = "Down" -> "Left"
      [] d = "Left" -> "Left"
      [] d = "UpLeft" -> "UpRight"
      [] d = "UpRight" -> "DownRight"
      [] d = "DownRight" -> "DownLeft"
      [] d = "DownLeft" -> "UpLeft"

rotate(d) ==
    CASE d = "Up" -> "Right"
      [] d = "Right" -> "Down"
      [] d = "Down" -> "Left"
      [] d = "Left" -> "Up"
      [] d = "UpLeft" -> "UpRight"
      [] d = "UpRight" -> "DownRight"
      [] d = "DownRight" -> "DownLeft"
      [] d = "DownLeft" -> "UpLeft"

\* reflect with the bug "the arms of the two axes are exchanged".
reflect_swapped_axes(d, axis) ==
    IF axis = "Vertical"
    THEN CASE d = "Up" -> "Down"
           [] d = "Down" -> "Up"
           [] d = "UpLeft" -> "DownLeft"
           [] d = "UpRight" -> "DownRight"
           [] d = "DownLeft" -> "UpLeft"
           [] d = "DownRight" -> "UpRight"
           [] OTHER -> d
    ELSE CASE d = "Left" -> "Right"
           [] d = "Right" -> "Left"
           [] d = "UpLeft" -> "UpRight"
           [] d = "UpRight" -> "UpLeft"
           [] d = "DownLeft" -> "DownRight"
           [] d = "DownRight" -> "DownLeft"
           [] OTHER -> d

reflect(d, axis) ==
    IF axis = "Horizontal"
    THEN CASE d = "Up" -> "Down"
           [] d = "Down" -> "Up"
           [] d = "UpLeft" -> "DownLeft"
           [] d = "UpRight" -> "DownRight"
           [] d = "DownLeft" -> "UpLeft"
           [] d = "DownRight" -> "UpRight"
           [] OTHER -> d
    ELSE CASE d = "Left" -> "Right"
           [] d = "Right" -> "Left"
           [] d = "UpLeft" -> "UpRight"
           [] d = "UpRight" -> "UpLeft"
           [] d = "DownLeft" -> "DownRight"
           [] d = "DownRight" -> "DownLeft"
           [] OTHER -> d

\* A Tile is its sequence of directions.
Tile_rotate(t) == [i \in 1..Len(t) |-> rotate(t[i])]

Tile_reflect(t, axis) == [i \in 1..Len(t) |-> reflect(t[i], axis)]

l_tile(length) == <<"Left">> \o [i \in 1..(length - 1) |-> "Up"]

box_tile == <<>>

t_tile(length) ==
    [i \in 1..length |-> "Right"] \o <<"Up", "DownRight">> \o [i \in 1..(length - 1) |-> "Right"]

\* The orbit after one pass of the loop: orbit.extend(to_insert).
OrbitPass(orbit) ==
    orbit \cup UNION {{Tile_rotate(t), Tile_reflect(t, "Horizontal"),
                       Tile_reflect(t, "Vertical")} : t \in orbit}

\* OrbitLoop with the bug "no loop": the orbit after a single pass.
OrbitLoop_one_pass(orbit) == OrbitPass(orbit)

RECURSIVE OrbitLoop(_)
OrbitLoop(orbit) ==
    LET next == OrbitPass(orbit)
    IN  IF Cardinality(next) = Cardinality(orbit) THEN orbit ELSE OrbitLoop(next)

\* The number of passes the loop makes from orbit, the last one included.
RECURSIVE OrbitPasses(_)
OrbitPasses(orbit) ==
    LET next == OrbitPass(orbit)
    IN  IF Cardinality(next) = Cardinality(orbit) THEN 1 ELSE 1 + OrbitPasses(next)

symmetry_orbit(tile) == OrbitLoop({tile})

TileCollection_new(ts) ==
    [tiles |-> ts,
     contains_single_tile |-> \E i \in 1..Len(ts) : Len(ts[i]) = 0]

\* from with the bug "the single-cell tile is always part of the collection".
TileCollection_from_with_box(tile, ho) ==
    TileCollection_new(HashIter(symmetry_orbit(tile) \cup {box_tile}, ho))

TileCollection_from(tile, ho) == TileCollection_new(HashIter(symmetry_orbit(tile), ho))

\* The seed tiles a run may be given: the constructors of tile.rs and
\* Tile::new with a diagonal chain and with a chain that walks back.
SeedTiles ==
    {box_tile, l_tile(1), l_tile(2), t_tile(1), <<"DownRight">>, <<"Up", "Down">>}

----------------------------------------------------------------------------
(* board.rs *)

Cells(width, height) == (0..(height - 1)) \X (0..(width - 1))

RectangularBoard_new(width, height) ==
    [width |-> width,
     height |-> height,
     board |-> [p \in Cells(width, height) |-> FALSE],
     counts |-> [p \in Cells(width, height) |->
                    IF p[2] = 0 \/ p[2] = width - 1 \/ p[1] = 0 \/ p[1] = height - 1
                    THEN 1 ELSE 0]]

\* l_board with the bug "for row in 0..=scale": one row too many is marked.
l_board_extra_row(n, scale) ==
    LET board == RectangularBoard_new(n * scale, 2 * scale)
    IN  [board EXCEPT !.board =
            [p \in DOMAIN board.board |->
                IF p[1] \in 0..scale /\ p[2] \in scale..(n * scale - 1)
                THEN TRUE ELSE board.board[p]]]

l_board(n, scale) ==
    LET board == RectangularBoard_new(n * scale, 2 * scale)
    IN  [board EXCEPT !.board =
            [p \in DOMAIN board.board |->
                IF p[1] \in 0..(scale - 1) /\ p[2] \in scale..(n * scale - 1)
                THEN TRUE ELSE board.board[p]]]

t_board(n, scale) ==
    LET board == RectangularBoard_new((2 * n + 1) * scale, 2 * scale)
    IN  [board EXCEPT !.board =
            [p \in DOMAIN board.board |->
                IF /\ p[1] \in 0..(scale - 1)
                   /\ \/ p[2] \in 0..(n * scale - 1)
                      \/ p[2] \in ((n + 1) * scale)..((2 * n + 1) * scale - 1)
                THEN TRUE ELSE board.board[p]]]

\* is_valid with the bug "p.x > 0": the top row is off the board.
is_valid_no_top_row(b, p) == p[1] > 0 /\ p[1] < b.height /\ p[2] >= 0 /\ p[2] < b.width

is_valid(b, p) == p[1] >= 0 /\ p[1] < b.height /\ p[2] >= 0 /\ p[2] < b.width

is_marked(b, p) == b.board[p]

\* One += 1 of mark, on the cell q when q is on the board.
Bump(b, q) ==
    IF is_valid(b, q) THEN [b EXCEPT !.counts[q] = @ + 1] ELSE b

\* mark with the bug "a marked neighbour needs no count": the += 1 is skipped
\* for neighbours that are already marked.
mark_skip_marked(b, p) ==
    LET skip(c, q) == IF is_valid(c, q) /\ ~c.board[q] THEN Bump(c, q) ELSE c
        c1 == skip(b, <<p[1] - 1, p[2]>>)
        c2 == skip(c1, <<p[1] + 1, p[2]>>)
        c3 == skip(c2, <<p[1], p[2] - 1>>)
        c4 == skip(c3, <<p[1], p[2] + 1>>)
    IN  [c4 EXCEPT !.board[p] = TRUE]

\* mark with the bug "the two loops cover the 3x3 block": the diagonal
\* neighbours are incremented too.
mark_with_diagonals(b, p) ==
    LET c1 == Bump(b, <<p[1] - 1, p[2]>>)
        c2 == Bump(c1, <<p[1] + 1, p[2]>>)
        c3 == Bump(c2, <<p[1], p[2] - 1>>)
        c4 == Bump(c3, <<p[1], p[2] + 1>>)
        c5 == Bump(c4, <<p[1] - 1, p[2] - 1>>)
        c6 == Bump(c5, <<p[1] - 1, p[2] + 1>>)
        c7 == Bump(c6, <<p[1] + 1, p[2] - 1>>)
        c8 == Bump(c7, <<p[1] + 1, p[2] + 1>>)
    IN  [c8 EXCEPT !.board[p] = TRUE]

\* mark with the bug "for xp in p.x - 1..=p.x + 1 without continue": the
\* count of p itself is incremented too.
mark_counts_itself(b, p) ==
    LET c1 == Bump(b, <<p[1] - 1, p[2]>>)
        c2 == Bump(c1, <<p[1] + 1, p[2]>>)
        c3 == Bump(c2, <<p[1], p[2] - 1>>)
        c4 == Bump(c3, <<p[1], p[2] + 1>>)
        c5 == Bump(c4, p)
    IN  [c5 EXCEPT !.board[p] = TRUE]

mark(b, p) ==
    LET c1 == Bump(b, <<p[1] - 1, p[2]>>)
        c2 == Bump(c1, <<p[1] + 1, p[2]>>)
        c3 == Bump(c2, <<p[1], p[2] - 1>>)
        c4 == Bump(c3, <<p[1], p[2] + 1>>)
    IN  [c4 EXCEPT !.board[p] = TRUE]

\* is_all_marked with the bug "return true after a row without unmarked cell".
is_all_marked_one_row(b) ==
    \E i \in 0..(b.height - 1) : \A j \in 0..(b.width - 1) : b.board[<<i, j>>]

is_all_marked(b) == \A p \in DOMAIN b.board : b.board[p]

move_in_direction(p, direction) ==
    LET col == p[2] + (CASE direction \in {"Left", "UpLeft", "DownLeft"} -> -1
                         [] direction \in {"Right", "UpRight", "DownRight"} -> 1
                         [] OTHER -> 0)
        row == p[1] + (CASE direction \in {"Up", "UpLeft", "UpRight"} -> -1
                         [] direction \in {"Down", "DownLeft", "DownRight"} -> 1
                         [] OTHER -> 0)
    IN  <<row, col>>

valid_and_unmarked(b, p) == is_valid(b, p) /\ ~is_marked(b, p)

\* One of the two walks of tile_fits_at_position: from cur along dirs, adding
\* the cells to covered; None as soon as a cell is off the board or marked.
RECURSIVE Walk(_, _, _, _)
Walk(b, cur, dirs, covered) ==
    IF Len(dirs) = 0 THEN Some(covered)
    ELSE LET nxt == move_in_direction(cur, Head(dirs))
         IN  IF ~valid_and_unmarked(b, nxt) THEN None
             ELSE Walk(b, nxt, Tail(dirs), covered \cup {nxt})

\* A TilePosition is [position, tile, start_index, covered].
tile_fits_at_position(b, tile, position, start_index) ==
    IF ~valid_and_unmarked(b, position) THEN None
    ELSE LET back == [k \in 1..start_index |-> opposite(tile[start_index + 1 - k])]
             fwd == SubSeq(tile, start_index + 1, Len(tile))
             r1 == Walk(b, position, back, {position})
         IN  IF ~r1.some THEN None
             ELSE LET r2 == Walk(b, position, fwd, r1.val)
                  IN  IF ~r2.some THEN None
                      ELSE Some([position |-> position, tile |-> tile,
                                 start_index |-> start_index, covered |-> r2.val])

\* The assert! of is_marked holds for p.
is_marked_asserts(b, p) == is_valid(b, p)

\* No assertion fails in valid_and_unmarked(p): && calls is_marked only when
\* is_valid has returned true.
valid_and_unmarked_asserts(b, p) == is_valid(b, p) => is_marked_asserts(b, p)

\* No assertion fails in the walk from cur along dirs, which ends at the
\* first cell that is off the board or marked.
RECURSIVE Walk_asserts(_, _, _)
Walk_asserts(b, cur, dirs) ==
    IF Len(dirs) = 0 THEN TRUE
    ELSE LET nxt == move_in_direction(cur, Head(dirs))
         IN  /\ valid_and_unmarked_asserts(b, nxt)
             /\ valid_and_unmarked(b, nxt) => Walk_asserts(b, nxt, Tail(dirs))

\* No assertion fails in tile_fits_at_position: start_index is at most the
\* number of directions, and is_marked is called for cells of the board only.
tile_fits_at_position_asserts(b, tile, position, start_index) ==
    /\ start_index <= Len(tile)
    /\ valid_and_unmarked_asserts(b, position)
    /\ valid_and_unmarked(b, position) =>
            LET back == [k \in 1..start_index |-> opposite(tile[start_index + 1 - k])]
                fwd == SubSeq(tile, start_index + 1, Len(tile))
            IN  /\ Walk_asserts(b, position, back)
                /\ Walk(b, position, back, {position}).some => Walk_asserts(b, position, fwd)

\* TilePosition_eq with the bug "#[derive(PartialEq)]": every field is compared.
TilePosition_eq_derived(a, b) == a = b

\* impl PartialEq for TilePosition
TilePosition_eq(a, b) == a.covered = b.covered

RECURSIVE MarkAll(_, _)
MarkAll(b, ps) ==
    IF Len(ps) = 0 THEN b ELSE MarkAll(mark(b, Head(ps)), Tail(ps))

mark_tile_at_position(b, tp, ho) == MarkAll(b, HashIter(tp.covered, ho))

\* The cells in the order place_tile scans them: for j in 0..width, for i in 0..height.
ScanOrder(b) ==
    [k \in 1..(b.width * b.height) |-> <<(k - 1) % b.height, (k - 1) \div b.height>>]

\* Scan with the bug "count > 4": a cell of count 4 does not prune.
RECURSIVE Scan_prune_above_four(_, _, _, _, _)
Scan_prune_above_four(b, tile_collection, k, largest_count, largest_position) ==
    IF k > b.width * b.height
    THEN [pruned |-> FALSE, largest_position |-> largest_position]
    ELSE LET p == ScanOrder(b)[k]
         IN  IF b.board[p]
             THEN Scan_prune_above_four(b, tile_collection, k + 1, largest_count,
                                        largest_position)
             ELSE IF ~tile_collection.contains_single_tile /\ b.counts[p] > 4
                  THEN [pruned |-> TRUE, largest_position |-> None]
                  ELSE IF ~largest_count.some \/ b.counts[p] > largest_count.val
                       THEN Scan_prune_above_four(b, tile_collection, k + 1,
                                                  Some(b.counts[p]), Some(p))
                       ELSE Scan_prune_above_four(b, tile_collection, k + 1, largest_count,
                                                  largest_position)

\* Scan with the bug "count >= largest_count": the last cell of the highest count wins.
RECURSIVE Scan_last_wins(_, _, _, _, _)
Scan_last_wins(b, tile_collection, k, largest_count, largest_position) ==
    IF k > b.width * b.height
    THEN [pruned |-> FALSE, largest_position |-> largest_position]
    ELSE LET p == ScanOrder(b)[k]
         IN  IF b.board[p]
             THEN Scan_last_wins(b, tile_collection, k + 1, largest_count, largest_position)
             ELSE IF ~tile_collection.contains_single_tile /\ b.counts[p] = 4
                  THEN [pruned |-> TRUE, largest_position |-> None]
                  ELSE IF ~largest_count.some \/ b.counts[p] >= largest_count.val
                       THEN Scan_last_wins(b, tile_collection, k + 1, Some(b.counts[p]), Some(p))
                       ELSE Scan_last_wins(b, tile_collection, k + 1, largest_count,
                                           largest_position)

\* The scan of place_tile from the k-th cell on: [pruned, largest_count, largest_position].
RECURSIVE Scan(_, _, _, _, _)
Scan(b, tile_collection, k, largest_count, largest_position) ==
    IF k > b.width * b.height
    THEN [pruned |-> FALSE, largest_position |-> largest_position]
    ELSE LET p == ScanOrder(b)[k]
         IN  IF b.board[p]
             THEN Scan(b, tile_collection, k + 1, largest_count, largest_position)
             ELSE IF ~tile_collection.contains_single_tile /\ b.counts[p] = 4
                  THEN [pruned |-> TRUE, largest_position |-> None]
                  ELSE IF ~largest_count.some \/ b.counts[p] > largest_count.val
                       THEN Scan(b, tile_collection, k + 1, Some(b.counts[p]), Some(p))
                       ELSE Scan(b, tile_collection, k + 1, largest_count, largest_position)

\* Attempts with the bug "for start_index in 0..=len + 1".
RECURSIVE Attempts_past_end(_)
Attempts_past_end(ts) ==
    IF Len(ts) = 0 THEN <<>>
    ELSE [k \in 1..(Len(Head(ts)) + 2) |-> <<Head(ts), k - 1>>] \o Attempts_past_end(Tail(ts))

\* The (tile, start_index) pairs in the order place_tile tries them.
RECURSIVE Attempts(_)
Attempts(ts) ==
    IF Len(ts) = 0 THEN <<>>
    ELSE [k \in 1..(Len(Head(ts)) + 1) |-> <<Head(ts), k - 1>>] \o Attempts(Tail(ts))

RECURSIVE FittingTiles(_, _, _, _)
FittingTiles(b, position, attempts, fitting_tiles) ==
    IF Len(attempts) = 0 THEN fitting_tiles
    ELSE LET tp == tile_fits_at_position(b, Head(attempts)[1], position, Head(attempts)[2])
             contains == \E i \in 1..Len(fitting_tiles) :
                            TilePosition_eq(fitting_tiles[i], tp.val)
         IN  IF tp.some /\ ~contains
             THEN FittingTiles(b, position, Tail(attempts), Append(fitting_tiles, tp.val))
             ELSE FittingTiles(b, position, Tail(attempts), fitting_tiles)

\* The best position of place_tile and the tile positions found there.
fitting_tiles_of(b, tile_collection) ==
    LET s == Scan(b, tile_collection, 1, None, None)
    IN  IF s.pruned \/ ~s.largest_position.some THEN <<>>
        ELSE FittingTiles(b, s.largest_position.val, Attempts(tile_collection.tiles), <<>>)

\* No assertion fails in place_tile.
place_tile_asserts(b, tile_collection) ==
    LET s == Scan(b, tile_collection, 1, None, None)
        attempts == Attempts(tile_collection.tiles)
    IN  (~s.pruned /\ s.largest_position.some) =>
            \A k \in 1..Len(attempts) :
                tile_fits_at_position_asserts(b, attempts[k][1], s.largest_position.val,
                                              attempts[k][2])

\* place_tile with the bug "the board is returned as it is, no tile placed".
place_tile_nothing(b, tile_collection, ho) == <<b>>

\* place_tile with the bug "no clone per child": each placement is marked on
\* the board that already holds the placements before it.
place_tile_shared(b, tile_collection, ho) ==
    LET fitting_tiles == fitting_tiles_of(b, tile_collection)
        shared[k \in 0..Len(fitting_tiles)] ==
            IF k = 0 THEN b ELSE mark_tile_at_position(shared[k - 1], fitting_tiles[k], ho)
    IN  [k \in 1..Len(fitting_tiles) |-> shared[k]]

place_tile(b, tile_collection, ho) ==
    LET fitting_tiles == fitting_tiles_of(b, tile_collection)
    IN  [k \in 1..Len(fitting_tiles) |-> mark_tile_at_position(b, fitting_tiles[k], ho)]

\* The initial boards a run may be given, by the three constructors.
InitialBoards ==
    {RectangularBoard_new(w, h) : <<w, h>> \in {x \in (1..MaxCells) \X (1..MaxCells) : x[1] * x[2] <= MaxCells}}
    \cup {l_board(n, s) : <<n, s>> \in {x \in (1..MaxCells) \X (1..MaxCells) : 2 * x[1] * x[2] * x[2] <= MaxCells}}
    \cup {t_board(n, s) : <<n, s>> \in {x \in (0..MaxCells) \X (1..MaxCells) : 2 * (2 * x[1] + 1) * x[2] * x[2] <= MaxCells}}

----------------------------------------------------------------------------
(* graph.rs *)

\* edges and rev_edges are maps: functions whose domain is the set of keys.
BoardGraph_new ==
    [nodes_arena |-> <<>>, nodes_arena_index |-> 0, edges |-> <<>>,
     rev_edges |-> <<>>, complete_indices |-> {}]

\* MapInsert with the bug "m.insert(k, {v})": the set of k is replaced.
MapInsert_replace(m, k, v) ==
    [x \in DOMAIN m \cup {k} |-> IF x = k THEN {v} ELSE m[x]]

\* The map m after m.entry(k).or_insert_with(HashSet::new).insert(v)
MapInsert(m, k, v) ==
    IF k \in DOMAIN m THEN [m EXCEPT ![k] = @ \cup {v}]
    ELSE [x \in DOMAIN m \cup {k} |-> IF x = k THEN {v} ELSE m[x]]

add_node(gr, v) ==
    [graph |-> [gr EXCEPT !.nodes_arena = Append(@, v),
                          !.nodes_arena_index = @ + 1],
     index |-> gr.nodes_arena_index]

\* add_edge with the bug "the edge is recorded from t to s".
add_edge_reversed(gr, s, t) ==
    IF ~(s < gr.nodes_arena_index /\ t < gr.nodes_arena_index) THEN None
    ELSE Some([gr EXCEPT !.edges = MapInsert(@, t, s),
                         !.rev_edges = MapInsert(@, s, t)])

\* None when the assertion of add_edge fails.
add_edge(gr, s, t) ==
    IF ~(s < gr.nodes_arena_index /\ t < gr.nodes_arena_index) THEN None
    ELSE Some([gr EXCEPT !.edges = MapInsert(@, s, t),
                         !.rev_edges = MapInsert(@, t, s)])

\* mark_node_as_complete with the bug "every node up to i is inserted".
mark_node_as_complete_up_to(gr, i) == [gr EXCEPT !.complete_indices = @ \cup (0..i)]

mark_node_as_complete(gr, i) == [gr EXCEPT !.complete_indices = @ \cup {i}]

\* get_complete_index returns the first index the HashSet hands out: any of them.
get_complete_index(gr) ==
    IF gr.complete_indices = {} THEN {None} ELSE {Some(i) : i \in gr.complete_indices}

get_edges(gr, i) == IF i \in DOMAIN gr.edges THEN Some(gr.edges[i]) ELSE None

\* Indices are 0-based, nodes_arena is a sequence.
get_node(gr, i) ==
    IF i + 1 \in DOMAIN gr.nodes_arena THEN Some(gr.nodes_arena[i + 1]) ELSE None

----------------------------------------------------------------------------
(* cli/tiler.rs: Tiler::new *)

\* No operation has returned since the last one was started.
NoResult == [op |-> "none"]

\* No operation is running: the locals of the three searches are empty.
LocalsEmpty ==
    /\ counter = <<>>
    /\ stack = {}
    /\ handles = {}
    /\ step_stack = {}
    /\ completed_board = <<>>
    /\ g = BoardGraph_new
    /\ gstack = <<>>
    /\ tstack = <<>>
    /\ completed_tilings = <<>>
    /\ limit = 0

TilerIdle ==
    /\ pc = "idle"
    /\ LocalsEmpty
    /\ result = NoResult
    /\ quick_count = None
    /\ generated = 0

quickVars == <<counter, stack, handles, step_stack, completed_board>>

genVars == <<g, gstack>>

gstVars == <<tstack, completed_tilings, limit>>

tilerVars == <<graph, pc, quickVars, genVars, gstVars, result, quick_count, generated>>

inputVars == <<tiles, initial_board, hashOrder>>

pathVars == <<path1, path2>>

\* Tiler::new(TileCollection::from(seed), board)
Tiler_new ==
    /\ hashOrder \in HashOrders
    /\ \E seed \in SeedTiles : tiles = TileCollection_from(seed, hashOrder)
    /\ initial_board \in InitialBoards
    /\ graph = None

----------------------------------------------------------------------------
(* Boards reached by place_tile steps: two sequences from the same initial board *)

InitBoard ==
    /\ Tiler_new
    /\ TilerIdle
    /\ path1 = <<initial_board>>
    /\ path2 = <<initial_board>>

Step1 ==
    /\ \E child \in Range(place_tile(Last(path1), tiles, hashOrder)) :
            path1' = Append(path1, child)
    /\ UNCHANGED <<inputVars, tilerVars, path2>>

Step2 ==
    /\ \E child \in Range(place_tile(Last(path2), tiles, hashOrder)) :
            path2' = Append(path2, child)
    /\ UNCHANGED <<inputVars, tilerVars, path1>>

NextBoard == Step1 \/ Step2

SpecBoard == InitBoard /\ [][NextBoard]_vars

----------------------------------------------------------------------------
(* cli/tiler.rs: count_tilings_quick *)

\* The triple the closure of the expansion phase returns for the board b,
\* whose count is current_count; board names the task, at is the position of
\* its merge task.
expand(b, current_count, tile_collection, ho) ==
    LET boards == place_tile(b, tile_collection, ho)
    IN  [board |-> b,
         next_boards |-> {c \in Range(boards) : ~is_all_marked(c)},
         completed_boards |-> {c \in Range(boards) : is_all_marked(c)},
         count_updates |-> [c \in Range(boards) |->
                              current_count * Cardinality({k \in 1..Len(boards) : boards[k] = c})],
         at |-> "stack"]

\* merge_counts with the bug "*entry = count": an update replaces the count
\* another task has added.
merge_counts_lost_update(cnt, count_updates) ==
    [c \in DOMAIN cnt \cup DOMAIN count_updates |->
        IF c \in DOMAIN count_updates THEN count_updates[c] ELSE cnt[c]]

\* The counter after the loop "for (board, count) in count_updates" of one
\* merge task, run under the write lock.
merge_counts(cnt, count_updates) ==
    [c \in DOMAIN cnt \cup DOMAIN count_updates |->
        (IF c \in DOMAIN cnt THEN cnt[c] ELSE 0)
        + (IF c \in DOMAIN count_updates THEN count_updates[c] ELSE 0)]

\* count_tilings, when no graph is available: count_tilings_quick up to the loop.
QuickStart ==
    /\ pc = "idle"
    /\ ~graph.some
    /\ counter' = [b \in {initial_board} |-> 1]
    /\ stack' = {initial_board}
    /\ completed_board' = <<>>
    /\ handles' = {}
    /\ step_stack' = {}
    /\ pc' = "quick_loop"
    /\ result' = NoResult
    /\ UNCHANGED <<inputVars, graph, genVars, gstVars, quick_count, generated, pathVars>>

\* The expansion phase of a round, up to collect(), then the fresh step_stack
\* and counter.  Indexing the counter with a board it does not hold panics,
\* and so does an assertion that fails in place_tile.
QuickExpand ==
    /\ pc = "quick_loop"
    /\ stack # {}
    /\ IF \A b \in stack : b \in DOMAIN counter /\ place_tile_asserts(b, tiles)
       THEN /\ handles' = {expand(b, counter[b], tiles, hashOrder) : b \in stack}
            /\ step_stack' = {}
            /\ counter' = <<>>
            /\ pc' = "quick_merge"
       ELSE /\ pc' = "panic"
            /\ UNCHANGED <<handles, step_stack, counter>>
    /\ UNCHANGED <<inputVars, graph, stack, completed_board, genVars, gstVars, result,
                   quick_count, generated, pathVars>>

\* The position of a merge task after its counter update / after a push.
AfterCounter(t) == IF t.completed_boards = {} THEN "done" ELSE "completed"

\* A merge task extends the new stack under the lock of step_stack.
MergeStack ==
    /\ pc = "quick_merge"
    /\ \E t \in handles :
        /\ t.at = "stack"
        /\ step_stack' = step_stack \cup t.next_boards
        /\ handles' = (handles \ {t}) \cup {[t EXCEPT !.at = "counter"]}
    /\ UNCHANGED <<inputVars, graph, pc, counter, stack, completed_board, genVars, gstVars,
                   result, quick_count, generated, pathVars>>

\* A merge task adds its count updates under the lock of counter.
MergeCounter ==
    /\ pc = "quick_merge"
    /\ \E t \in handles :
        /\ t.at = "counter"
        /\ counter' = merge_counts(counter, t.count_updates)
        /\ handles' = (handles \ {t}) \cup {[t EXCEPT !.at = AfterCounter(t)]}
    /\ UNCHANGED <<inputVars, graph, pc, stack, step_stack, completed_board, genVars, gstVars,
                   result, quick_count, generated, pathVars>>

\* A merge task pushes one of its completed boards under the lock of completed_board.
MergeCompleted ==
    /\ pc = "quick_merge"
    /\ \E t \in handles :
        /\ t.at = "completed"
        /\ \E board \in t.completed_boards :
            LET rest == [t EXCEPT !.completed_boards = @ \ {board}]
            IN  /\ completed_board' = Append(completed_board, board)
                /\ handles' = (handles \ {t}) \cup {[rest EXCEPT !.at = AfterCounter(rest)]}
    /\ UNCHANGED <<inputVars, graph, pc, counter, stack, step_stack, genVars, gstVars,
                   result, quick_count, generated, pathVars>>

\* for_each has returned: the new stack replaces the old one.
QuickRoundEnd ==
    /\ pc = "quick_merge"
    /\ \A t \in handles : t.at = "done"
    /\ stack' = step_stack
    /\ handles' = {}
    /\ step_stack' = {}
    /\ pc' = "quick_loop"
    /\ UNCHANGED <<inputVars, graph, counter, completed_board, genVars, gstVars, result,
                   quick_count, generated, pathVars>>

\* The stack is empty: the count of the last completed board, or zero.
QuickFinish ==
    /\ pc = "quick_loop"
    /\ stack = {}
    /\ IF Len(completed_board) > 0 /\ Last(completed_board) \notin DOMAIN counter
       THEN /\ pc' = "panic"
            /\ UNCHANGED <<quickVars, result, quick_count>>
       ELSE /\ LET count == IF Len(completed_board) > 0
                            THEN counter[Last(completed_board)] ELSE 0
               IN  /\ result' = [op |-> "count_tilings_quick", value |-> count]
                   /\ quick_count' = Some(count)
            /\ counter' = <<>>
            /\ completed_board' = <<>>
            /\ pc' = "idle"
            /\ UNCHANGED <<stack, handles, step_stack>>
    /\ UNCHANGED <<inputVars, graph, genVars, gstVars, generated, pathVars>>

----------------------------------------------------------------------------
(* cli/tiler.rs: generate_graph, graph, count_tilings_from_graph *)

\* contains_key with the bug "the map of the round is never consulted".
contains_key_never(m, k) == FALSE

\* board_map.contains_key(&board)
contains_key(m, k) == k \in DOMAIN m

\* The body of "for board in child_boards" for the children of board_index
\* from the k-th on.  acc is [ok, g, board_map, next_iteration]; ok turns
\* FALSE when the assertion of add_edge fails.
RECURSIVE GenChildren(_, _, _, _)
GenChildren(acc, board_index, child_boards, k) ==
    IF k > Len(child_boards) \/ ~acc.ok THEN acc
    ELSE LET board == child_boards[k]
             complete == is_all_marked(board)
             known == contains_key(acc.board_map, board)
             added == add_node(acc.g, board)
             child_index == IF known THEN acc.board_map[board] ELSE added.index
             g1 == IF known THEN acc.g ELSE added.graph
             board_map1 == IF known THEN acc.board_map
                           ELSE [x \in DOMAIN acc.board_map \cup {board} |->
                                    IF x = board THEN added.index ELSE acc.board_map[x]]
             g2 == add_edge(g1, board_index, child_index)
         IN  IF ~g2.some THEN [acc EXCEPT !.ok = FALSE]
             ELSE GenChildren(
                    [ok |-> TRUE,
                     g |-> IF complete THEN mark_node_as_complete(g2.val, child_index)
                           ELSE g2.val,
                     board_map |-> board_map1,
                     next_iteration |-> IF complete THEN acc.next_iteration
                                        ELSE Append(acc.next_iteration, child_index)],
                    board_index, child_boards, k + 1)

\* The children the parallel map computes for board_index, read from gr.
gen_children_of(gr, board_index, tile_collection, ho) ==
    LET board == get_node(gr, board_index)
    IN  IF board.some THEN place_tile(board.val, tile_collection, ho) ELSE <<>>

\* One round of generate_graph: the map over the stack reads the graph as it
\* is at the start of the round, then the for loop takes the pairs in order.
RECURSIVE GenRoundFrom(_, _, _, _, _, _)
GenRoundFrom(acc, gr0, stk, k, tile_collection, ho) ==
    IF k > Len(stk) \/ ~acc.ok THEN acc
    ELSE GenRoundFrom(
            GenChildren(acc, stk[k], gen_children_of(gr0, stk[k], tile_collection, ho), 1),
            gr0, stk, k + 1, tile_collection, ho)

\* No assertion fails in the parallel map for board_index.
gen_children_asserts(gr, board_index, tile_collection) ==
    LET board == get_node(gr, board_index)
    IN  board.some => place_tile_asserts(board.val, tile_collection)

\* ok is FALSE when an assertion fails, in the map or in add_edge.
gen_round(gr, stk, tile_collection, ho) ==
    LET acc == [ok |-> TRUE, g |-> gr, board_map |-> <<>>, next_iteration |-> <<>>]
    IN  IF \E k \in 1..Len(stk) : ~gen_children_asserts(gr, stk[k], tile_collection)
        THEN [acc EXCEPT !.ok = FALSE]
        ELSE GenRoundFrom(acc, gr, stk, 1, tile_collection, ho)

\* graph_is_none with the bug "the cache is never consulted".
graph_is_none_always(gr) == TRUE

\* if self.graph.is_none()
graph_is_none(gr) == ~gr.some

\* graph(), when the graph does not exist: generate_graph up to the loop.
GraphStart ==
    /\ pc = "idle"
    /\ graph_is_none(graph)
    /\ generated < MaxGenerated
    /\ g' = add_node(BoardGraph_new, initial_board).graph
    /\ gstack' = <<0>>
    /\ pc' = "gen"
    /\ result' = NoResult
    /\ UNCHANGED <<inputVars, graph, quickVars, gstVars, quick_count, generated, pathVars>>

GenRound ==
    /\ pc = "gen"
    /\ Len(gstack) > 0
    /\ LET r == gen_round(g, gstack, tiles, hashOrder)
       IN  IF r.ok
           THEN /\ g' = r.g
                /\ gstack' = r.next_iteration
                /\ pc' = "gen"
           ELSE /\ pc' = "panic"
                /\ UNCHANGED <<g, gstack>>
    /\ UNCHANGED <<inputVars, graph, quickVars, gstVars, result, quick_count, generated,
                   pathVars>>

\* The stack is empty: generate_graph stores the graph and graph() returns a handle to it.
GenFinish ==
    /\ pc = "gen"
    /\ Len(gstack) = 0
    /\ graph' = Some(g)
    /\ generated' = generated + 1
    /\ result' = [op |-> "graph", cached |-> FALSE, value |-> g]
    /\ g' = BoardGraph_new
    /\ pc' = "idle"
    /\ UNCHANGED <<inputVars, quickVars, gstack, gstVars, quick_count, pathVars>>

\* graph(), when the graph exists: a handle to it.
GraphCached ==
    /\ pc = "idle"
    /\ ~graph_is_none(graph)
    /\ result' = [op |-> "graph", cached |-> TRUE, value |-> graph.val]
    /\ UNCHANGED <<inputVars, graph, pc, quickVars, genVars, gstVars, quick_count, generated,
                   pathVars>>

\* The loop "for edge in edges" for the edges of one board, whose count is c.
RECURSIVE AddEdges(_, _, _)
AddEdges(acc, c, edges) ==
    IF Len(edges) = 0 THEN acc
    ELSE LET edge == Head(edges)
             old == IF edge \in DOMAIN acc.count_map THEN acc.count_map[edge] ELSE 0
         IN  AddEdges(
                [count_map |-> [x \in DOMAIN acc.count_map \cup {edge} |->
                                   IF x = edge THEN old + c ELSE acc.count_map[x]],
                 next_stack |-> acc.next_stack \cup {edge}],
                c, Tail(edges))

\* The loop "for board_index in stack"; acc is [count_map, next_stack].
RECURSIVE CountLevel(_, _, _, _)
CountLevel(acc, gr, stk, ho) ==
    IF Len(stk) = 0 THEN acc
    ELSE LET board_index == Head(stk)
             c == acc.count_map[board_index]
             edges == get_edges(gr, board_index)
         IN  CountLevel(IF edges.some THEN AddEdges(acc, c, HashIter(edges.val, ho)) ELSE acc,
                        gr, Tail(stk), ho)

\* The loop "while !stack.is_empty()": the final count_map.
RECURSIVE CountLoop(_, _, _, _)
CountLoop(count_map, gr, stk, ho) ==
    IF stk = {} THEN count_map
    ELSE LET r == CountLevel([count_map |-> count_map, next_stack |-> {}],
                             gr, HashIter(stk, ho), ho)
         IN  CountLoop(r.count_map, gr, r.next_stack, ho)

\* count_tilings_from_graph, given the index get_complete_index returned.
count_tilings_from_graph(gr, complete_board_index, ho) ==
    IF ~complete_board_index.some THEN 0
    ELSE LET count_map == CountLoop([i \in {0} |-> 1], gr, {0}, ho)
         IN  IF complete_board_index.val \in DOMAIN count_map
             THEN count_map[complete_board_index.val] ELSE 0

\* count_tilings, when the graph is available.
CountFromGraph ==
    /\ pc = "idle"
    /\ graph.some
    /\ \E complete_board_index \in get_complete_index(graph.val) :
          result' = [op |-> "count_tilings_from_graph",
                     value |-> count_tilings_from_graph(graph.val, complete_board_index,
                                                        hashOrder)]
    /\ UNCHANGED <<inputVars, graph, pc, quickVars, genVars, gstVars, quick_count, generated,
                   pathVars>>

----------------------------------------------------------------------------
(* cli/tiler.rs: get_single_tiling *)

\* The body of the while loop for the popped tvec: the loop over
\* fitting_tiles from the k-th board on.  acc is [stack, completed_tilings].
RECURSIVE GstChildren(_, _, _, _)
GstChildren(acc, tvec, fitting_tiles, k) ==
    IF k > Len(fitting_tiles) THEN acc
    ELSE LET board == fitting_tiles[k]
             new_tvec == Append(tvec, board)
         IN  GstChildren(
                IF is_all_marked(board)
                THEN [acc EXCEPT !.completed_tilings = Append(@, new_tvec)]
                ELSE [acc EXCEPT !.stack = Append(@, new_tvec)],
                tvec, fitting_tiles, k + 1)

gst_step(stk, completed, tile_collection, ho) ==
    LET tvec == Last(stk)
        fitting_tiles == place_tile(Last(tvec), tile_collection, ho)
    IN  GstChildren([stack |-> SubSeq(stk, 1, Len(stk) - 1), completed_tilings |-> completed],
                    tvec, fitting_tiles, 1)

GstStart ==
    /\ pc = "idle"
    /\ limit' \in 0..MaxLimit
    /\ tstack' = <<<<initial_board>>>>
    /\ completed_tilings' = <<>>
    /\ pc' = "gst"
    /\ result' = NoResult
    /\ UNCHANGED <<inputVars, graph, quickVars, genVars, quick_count, generated, pathVars>>

\* One iteration of "while let Some(tvec) = stack.pop()", with its break; an
\* assertion that fails in place_tile panics.
GstStep ==
    /\ pc = "gst"
    /\ Len(tstack) > 0
    /\ IF place_tile_asserts(Last(Last(tstack)), tiles)
       THEN LET r == gst_step(tstack, completed_tilings, tiles, hashOrder)
            IN  /\ tstack' = r.stack
                /\ completed_tilings' = r.completed_tilings
                /\ pc' = IF Len(r.completed_tilings) >= limit THEN "gst_select" ELSE "gst"
       ELSE /\ pc' = "panic"
            /\ UNCHANGED <<tstack, completed_tilings>>
    /\ UNCHANGED <<inputVars, graph, quickVars, genVars, limit, result, quick_count, generated,
                   pathVars>>

\* After the loop: a random one of the completed tilings, or None.
GstFinish ==
    /\ \/ pc = "gst_select"
       \/ pc = "gst" /\ Len(tstack) = 0
    /\ IF Len(completed_tilings) > 0
       THEN \E solution_index \in 1..Len(completed_tilings) :
                result' = [op |-> "get_single_tiling", limit |-> limit,
                           value |-> Some(completed_tilings[solution_index])]
       ELSE result' = [op |-> "get_single_tiling", limit |-> limit, value |-> None]
    /\ tstack' = <<>>
    /\ completed_tilings' = <<>>
    /\ limit' = 0
    /\ pc' = "idle"
    /\ UNCHANGED <<inputVars, graph, quickVars, genVars, quick_count, generated, pathVars>>

----------------------------------------------------------------------------
(* The Tiler: its operations, one at a time *)

Init == InitBoard

Next ==
    \/ QuickStart
    \/ QuickExpand
    \/ MergeStack
    \/ MergeCounter
    \/ MergeCompleted
    \/ QuickRoundEnd
    \/ QuickFinish
    \/ GraphStart
    \/ GenRound
    \/ GenFinish
    \/ GraphCached
    \/ CountFromGraph
    \/ GstStart
    \/ GstStep
    \/ GstFinish

Spec == Init /\ [][Next]_vars

----------------------------------------------------------------------------
(* The Tiler with any collection, and with the running search always taking
   its next step *)

\* Collections TileCollection::new is given and from does not build: no
\* tile, the single-cell tile with the domino, the domino with the tromino.
OtherCollections ==
    {TileCollection_new(<<>>),
     TileCollection_new(<<box_tile, <<"Right">>>>),
     TileCollection_new(<<<<"Right">>, <<"Right", "Right">>>>)}

InitLive ==
    /\ hashOrder \in HashOrders
    /\ \/ \E seed \in SeedTiles : tiles = TileCollection_from(seed, hashOrder)
       \/ tiles \in OtherCollections
    /\ initial_board \in {b \in InitialBoards : b.width * b.height <= MaxLiveCells}
    /\ graph = None
    /\ TilerIdle
    /\ path1 = <<initial_board>>
    /\ path2 = <<initial_board>>

\* The steps after the parallel map of a round and after the loops: every
\* merge task of the pool runs, every lock is released, and the thread that
\* called the search is scheduled.
Merging ==
    \/ MergeStack
    \/ MergeCounter
    \/ MergeCompleted
    \/ QuickRoundEnd
    \/ QuickFinish
    \/ GenFinish
    \/ GstFinish

\* The loop of a search has a board to expand: QuickExpand, GenRound or
\* GstStep is enabled, and no other step is.
ExpandEnabled ==
    \/ pc = "quick_loop" /\ stack # {}
    \/ pc = "gen" /\ Len(gstack) > 0
    \/ pc = "gst" /\ Len(tstack) > 0

\* Weak fairness of the step that expands, WF_vars(QuickExpand \/ GenRound \/
\* GstStep), written out with ExpandEnabled as its enabling condition: the
\* calls of place_tile return and the tasks of the parallel map are run.
FairExpand == []<>(~ExpandEnabled) \/ []<><<ExpandEnabled>>_vars

SpecLive == InitLive /\ [][Next]_vars /\ WF_vars(Merging) /\ FairExpand

----------------------------------------------------------------------------
(* Reference definitions: tilings by brute force *)

\* The cells a tile covers when its chain starts at cur.
RECURSIVE ShapeFrom(_, _)
ShapeFrom(cur, dirs) ==
    IF Len(dirs) = 0 THEN {cur}
    ELSE {cur} \cup ShapeFrom(move_in_direction(cur, Head(dirs)), Tail(dirs))

Shapes(tile_collection) == {ShapeFrom(<<0, 0>>, t) : t \in Range(tile_collection.tiles)}

Translate(S, c, s) == {<<q[1] + c[1] - s[1], q[2] + c[2] - s[2]>> : q \in S}

\* The translated cell sets of the shapes that contain the cell c and lie in U.
PlacementsAt(U, shapes, c) ==
    {P \in UNION {{Translate(S, c, s) : s \in S} : S \in shapes} : P \subseteq U}

\* The number of ways to partition the cell set U into placements.
RECURSIVE TilingsOf(_, _)
TilingsOf(U, shapes) ==
    IF U = {} THEN 1
    ELSE LET c == CHOOSE c \in U : TRUE
             ps == PlacementsAt(U, shapes, c)
             sub == [P \in ps |-> TilingsOf(U \ P, shapes)]
         IN  SumOver(sub, ps)

Unmarked(b) == {p \in DOMAIN b.board : ~b.board[p]}

Tilings(b, tile_collection) == TilingsOf(Unmarked(b), Shapes(tile_collection))

\* The number of cardinal neighbours of p that are off the grid or marked.
Blocked(b, p) ==
    Cardinality({q \in {<<p[1] - 1, p[2]>>, <<p[1] + 1, p[2]>>, <<p[1], p[2] - 1>>, <<p[1], p[2] + 1>>} :
                    ~is_valid(b, q) \/ b.board[q]})

----------------------------------------------------------------------------
(* Claims about boards *)

Neighbours(p) == {<<p[1] - 1, p[2]>>, <<p[1] + 1, p[2]>>, <<p[1], p[2] - 1>>, <<p[1], p[2] + 1>>}

\* C4: pruning soundness. When the collection has no single-cell tile and
\* place_tile returns nothing for a reached board that is not fully marked,
\* no set of non-overlapping placements of collection tiles covers the
\* unmarked cells of that board.
C4_PruningSound ==
    LET b == Last(path1)
    IN  (/\ ~tiles.contains_single_tile
         /\ ~is_all_marked(b)
         /\ Len(place_tile(b, tiles, hashOrder)) = 0)
        => Tilings(b, tiles) = 0

\* C8: two boards reached from the same initial board are equal (width,
\* height, board and counts) exactly when their marked grids are equal.
C8_EqualIffSameGrid ==
    (Last(path1) = Last(path2)) <=> (Last(path1).board = Last(path2).board)

\* C8 witness: the same marked grid reached by two different sequences of
\* placements.
C8_Witness ==
    /\ Last(path1).board = Last(path2).board
    /\ Len(path1) > 2
    /\ path1[2] # path2[2]

\* C9: in every board reached from RectangularBoard::new, the count of each
\* cell is the number of its cardinal neighbours that are off-grid or marked.
C9_CountIsBlocked ==
    (\A p \in DOMAIN initial_board.board : ~initial_board.board[p])
        => \A p \in DOMAIN Last(path1).board :
              Last(path1).counts[p] = Blocked(Last(path1), p)

\* C10: in every reached board, an unmarked cell whose count is 4 has all
\* four cardinal neighbours off-grid or marked.
C10_FourMeansBlocked ==
    \A p \in DOMAIN Last(path1).board :
        (~Last(path1).board[p] /\ Last(path1).counts[p] = 4)
            => \A q \in Neighbours(p) : ~is_valid(Last(path1), q) \/ Last(path1).board[q]

\* C10 witness: a reached board with an unmarked cell of count 4, after at
\* least one placement.
C10_Witness ==
    /\ Len(path1) > 1
    /\ \E p \in DOMAIN Last(path1).board :
            ~Last(path1).board[p] /\ Last(path1).counts[p] = 4

----------------------------------------------------------------------------
(* Claims about the Tiler *)

\* All placements of collection tiles that fit on the unmarked cells U.
AllPlacements(U, shapes) == UNION {PlacementsAt(U, shapes, c) : c \in U}

\* The number of sequences of place_tile steps from b to a fully marked board.
RECURSIVE Paths(_, _, _)
Paths(b, tile_collection, ho) ==
    IF Unmarked(b) = {} THEN 1
    ELSE LET boards == place_tile(b, tile_collection, ho)
             sub == [k \in 1..Len(boards) |-> Paths(boards[k], tile_collection, ho)]
         IN  SumOver(sub, 1..Len(boards))

\* C1: count_tilings returns the number of tilings of the initial board: the
\* number of partitions of its unmarked cells into placements of collection
\* tiles.
C1_CountIsExact ==
    result.op \in {"count_tilings_quick", "count_tilings_from_graph"}
        => result.value = Tilings(initial_board, tiles)

\* C2: the count computed from the materialized graph equals the count
\* count_tilings_quick computed for the same board and collection.
C2_GraphCountIsQuickCount ==
    (result.op = "count_tilings_from_graph" /\ quick_count.some)
        => result.value = quick_count.val

\* C2 witness: both counts have been computed, and there are several tilings.
C2_Witness ==
    /\ result.op = "count_tilings_from_graph"
    /\ quick_count.some
    /\ result.value > 1

\* b is a with exactly the cells of one fitting placement marked in addition.
OnePlacement(a, b, tile_collection) ==
    /\ DOMAIN b.board = DOMAIN a.board
    /\ \A p \in DOMAIN a.board : a.board[p] => b.board[p]
    /\ {p \in DOMAIN a.board : b.board[p] /\ ~a.board[p]}
            \in AllPlacements(Unmarked(a), Shapes(tile_collection))

\* C3: a sequence returned by get_single_tiling starts with the initial
\* board, ends with a fully marked board, and each board is the one before
\* it plus the cells of one fitting placement.
C3_TilingIsValid ==
    (result.op = "get_single_tiling" /\ result.value.some)
        => LET seq == result.value.val
           IN  /\ seq[1] = initial_board
               /\ Unmarked(Last(seq)) = {}
               /\ \A i \in 1..(Len(seq) - 1) : OnePlacement(seq[i], seq[i + 1], tiles)

\* C3 witness: a returned tiling of at least two placements.
C3_Witness ==
    /\ result.op = "get_single_tiling"
    /\ result.value.some
    /\ Len(result.value.val) > 2

\* The sum of the count updates for the board c over the merge tasks ts.
FanIn(ts, c) ==
    LET with == {t \in ts : c \in DOMAIN t.count_updates}
        f == [t \in with |-> t.count_updates[c]]
    IN  SumOver(f, with)

\* C5: in every interleaving of the merge tasks, the counter holds for each
\* successor board the sum of the updates of the tasks merged so far and
\* the new stack holds the union of their next boards, so no update is lost;
\* and count_tilings_quick returns the number of place_tile paths from the
\* initial board to a fully marked board, whatever the interleaving was.
C5_MergeOrderIndependent ==
    /\ pc = "quick_merge" =>
          LET counted == {t \in handles : t.at \in {"completed", "done"}}
              stacked == {t \in handles : t.at # "stack"}
          IN  /\ DOMAIN counter = UNION {DOMAIN t.count_updates : t \in counted}
              /\ \A c \in DOMAIN counter : counter[c] = FanIn(counted, c)
              /\ step_stack = UNION {t.next_boards : t \in stacked}
    /\ result.op = "count_tilings_quick" =>
          result.value = Paths(initial_board, tiles, hashOrder)

\* C5 witness: a round has been merged in which a board had two parents.
C5_Witness ==
    /\ pc = "quick_merge"
    /\ \A t \in handles : t.at = "done"
    /\ \E t1, t2 \in handles :
          t1 # t2 /\ DOMAIN t1.count_updates \cap DOMAIN t2.count_updates # {}

\* C6: for limit >= 1, get_single_tiling returns None exactly when the
\* initial board has no tiling with the collection.
C6_NoneIffNoTiling ==
    (result.op = "get_single_tiling" /\ result.limit >= 1)
        => (~result.value.some <=> Tilings(initial_board, tiles) = 0)

\* C7: the graph is generated at most once; once stored it never changes,
\* whatever is called afterwards, and graph() returns the stored graph.
C7_GraphBuiltOnce ==
    /\ [](generated <= 1)
    /\ [](result.op = "graph" => (graph.some /\ result.value = graph.val))
    /\ [][graph.some => graph' = graph]_vars

\* C7 witness: graph() has returned the graph built by an earlier call.
C7_Witness ==
    /\ result.op = "graph"
    /\ result.cached
    /\ generated = 1

----------------------------------------------------------------------------
(* graph.rs: a BoardGraph driven call by call *)

\* The boards the calls store.
GraphBoards == {RectangularBoard_new(1, 1), RectangularBoard_new(2, 1)}

\* The indices the calls are given: those of a full arena, and one past it.
GraphIndices == 0..MaxNodes

\* The inputs of a Tiler, for the specifications that run no Tiler.
NoTiler ==
    /\ hashOrder = 0
    /\ tiles = TileCollection_from(box_tile, 0)
    /\ initial_board = RectangularBoard_new(1, 1)
    /\ graph = None
    /\ path1 = <<>>
    /\ path2 = <<>>

InitGraph ==
    /\ NoTiler
    /\ TilerIdle

\* result records the call: valid says whether every index it was given was
\* in the arena, changed whether the call changed the graph.
GraphAddNode ==
    /\ pc = "idle"
    /\ g.nodes_arena_index < MaxNodes
    /\ \E v \in GraphBoards :
        LET r == add_node(g, v)
        IN  /\ g' = r.graph
            /\ result' = [op |-> "add_node", valid |-> TRUE, changed |-> TRUE,
                          value |-> r.index]
    /\ UNCHANGED <<inputVars, graph, pc, quickVars, gstack, gstVars, quick_count,
                   generated, pathVars>>

GraphAddEdge ==
    /\ pc = "idle"
    /\ \E s, t \in GraphIndices :
        LET r == add_edge(g, s, t)
            valid == s < g.nodes_arena_index /\ t < g.nodes_arena_index
        IN  IF r.some
            THEN /\ g' = r.val
                 /\ pc' = "idle"
                 /\ result' = [op |-> "add_edge", valid |-> valid,
                               changed |-> r.val # g, value |-> <<s, t>>]
            ELSE /\ g' = g
                 /\ pc' = "panic"
                 /\ result' = [op |-> "add_edge", valid |-> valid,
                               changed |-> FALSE, value |-> <<s, t>>]
    /\ UNCHANGED <<inputVars, graph, quickVars, gstack, gstVars, quick_count,
                   generated, pathVars>>

GraphMarkComplete ==
    /\ pc = "idle"
    /\ \E i \in GraphIndices :
        LET r == mark_node_as_complete(g, i)
        IN  /\ g' = r
            /\ result' = [op |-> "mark_node_as_complete",
                          valid |-> i < g.nodes_arena_index,
                          changed |-> r # g, value |-> i]
    /\ UNCHANGED <<inputVars, graph, pc, quickVars, gstack, gstVars, quick_count,
                   generated, pathVars>>

NextGraph == GraphAddNode \/ GraphAddEdge \/ GraphMarkComplete

SpecGraph == InitGraph /\ [][NextGraph]_vars

----------------------------------------------------------------------------
(* board.rs: the constructors, called on their own.  A behaviour is one call. *)

InitCtor ==
    /\ NoTiler
    /\ TilerIdle

ctorUnchanged == <<inputVars, graph, pc, quickVars, genVars, gstVars, quick_count, generated,
                   pathVars>>

CallNew ==
    /\ result = NoResult
    /\ \E width, height \in 1..MaxArg :
        result' = [op |-> "new", width |-> width, height |-> height,
                   value |-> RectangularBoard_new(width, height)]
    /\ UNCHANGED ctorUnchanged

CallLBoard ==
    /\ result = NoResult
    /\ \E n, scale \in 1..MaxArg :
        result' = [op |-> "l_board", n |-> n, scale |-> scale, value |-> l_board(n, scale)]
    /\ UNCHANGED ctorUnchanged

CallTBoard ==
    /\ result = NoResult
    /\ \E n \in 0..MaxArg, scale \in 1..MaxArg :
        result' = [op |-> "t_board", n |-> n, scale |-> scale, value |-> t_board(n, scale)]
    /\ UNCHANGED ctorUnchanged

NextCtor == CallNew \/ CallLBoard \/ CallTBoard

SpecCtor == InitCtor /\ [][NextCtor]_vars

----------------------------------------------------------------------------
(* tile.rs: the tile operations, called on their own.  A behaviour is one call. *)

\* The tiles the operations are given: every chain of at most MaxDirections directions.
Tiles == UNION {[1..k -> Direction] : k \in 0..MaxDirections}

Axis == {"Vertical", "Horizontal"}

InitTile ==
    /\ NoTiler
    /\ TilerIdle

CallRotate ==
    /\ result = NoResult
    /\ \E tile \in Tiles :
        result' = [op |-> "rotate", tile |-> tile, value |-> Tile_rotate(tile)]
    /\ UNCHANGED ctorUnchanged

CallReflect ==
    /\ result = NoResult
    /\ \E tile \in Tiles, axis \in Axis :
        result' = [op |-> "reflect", tile |-> tile, axis |-> axis,
                   value |-> Tile_reflect(tile, axis)]
    /\ UNCHANGED ctorUnchanged

\* TileCollection::from(tile); passes is the number of passes of its loop.
CallFrom ==
    /\ result = NoResult
    /\ \E tile \in Tiles, ho \in HashOrders :
        result' = [op |-> "from", tile |-> tile, value |-> TileCollection_from(tile, ho),
                   passes |-> OrbitPasses({tile})]
    /\ UNCHANGED ctorUnchanged

NextTile == CallRotate \/ CallReflect \/ CallFrom

SpecTile == InitTile /\ [][NextTile]_vars

----------------------------------------------------------------------------
(* board.rs: tile_fits_at_position, called on its own on two boards.  A
   behaviour is one pair of boards and one tile. *)

\* The board of the given size whose unmarked cells are those of free, with
\* the counts that new and one mark of each other cell leave: the count of
\* new and 1 for each marked cardinal neighbour.
BoardWithFree(width, height, free) ==
    LET fresh == RectangularBoard_new(width, height)
        marked == Cells(width, height) \ free
    IN  [width |-> width,
         height |-> height,
         board |-> [p \in Cells(width, height) |-> p \in marked],
         counts |-> [p \in Cells(width, height) |->
                        fresh.counts[p]
                        + Cardinality({q \in marked : \/ q[1] = p[1] /\ q[2] - p[2] \in {-1, 1}
                                                      \/ q[2] = p[2] /\ q[1] - p[1] \in {-1, 1}})]]

FitSizes == {x \in (1..MaxFitCells) \X (1..MaxFitCells) : x[1] * x[2] <= MaxFitCells}

Shifts == ((-MaxShift)..MaxShift) \X ((-MaxShift)..MaxShift)

Shifted(p, by) == <<p[1] + by[1], p[2] + by[2]>>

\* The tiles of the collections a run may be given, but for those of
\* t_tile, which fit on no board of so few cells.
FitTiles == UNION {symmetry_orbit(seed) : seed \in SeedTiles \ {t_tile(1)}}

\* The anchors tried on a board: its cells and the ring of positions around it.
Anchors(b) == (-1..b.height) \X (-1..b.width)

\* The results of tile_fits_at_position on b for the tile, by anchor and
\* start_index; the anchors tried are those of Anchors(of) moved by the shift.
FitTable(b, tile, of, by) ==
    [x \in Anchors(of) \X (0..Len(tile)) |->
        tile_fits_at_position(b, tile, Shifted(x[1], by), x[2])]

InitFit ==
    /\ NoTiler
    /\ TilerIdle

CallFits ==
    /\ result = NoResult
    /\ \E size1 \in FitSizes, size2 \in FitSizes, by \in Shifts, tile \in FitTiles :
        \E free \in SUBSET Cells(size1[1], size1[2]) :
            /\ {Shifted(p, by) : p \in free} \subseteq Cells(size2[1], size2[2])
            /\ LET first == BoardWithFree(size1[1], size1[2], free)
                   second == BoardWithFree(size2[1], size2[2], {Shifted(p, by) : p \in free})
               IN  result' = [op |-> "tile_fits_at_position", first |-> first,
                              second |-> second, by |-> by, tile |-> tile,
                              value1 |-> FitTable(first, tile, first, <<0, 0>>),
                              value2 |-> FitTable(second, tile, first, by)]
    /\ UNCHANGED ctorUnchanged

NextFit == CallFits

SpecFit == InitFit /\ [][NextFit]_vars

----------------------------------------------------------------------------
(* board.rs: place_tile and mark, called on their own on a board with any
   cells marked.  A behaviour is one call. *)

PlaceSizes == {x \in (1..MaxPlaceCells) \X (1..MaxPlaceCells) : x[1] * x[2] <= MaxPlaceCells}

InitPlace ==
    /\ NoTiler
    /\ TilerIdle

CallPlaceTile ==
    /\ result = NoResult
    /\ \E size \in PlaceSizes, seed \in SeedTiles, ho \in HashOrders :
        \E free \in SUBSET Cells(size[1], size[2]) :
            result' = [op |-> "place_tile",
                       board |-> BoardWithFree(size[1], size[2], free),
                       tiles |-> TileCollection_from(seed, ho),
                       ho |-> ho,
                       value |-> place_tile(BoardWithFree(size[1], size[2], free),
                                            TileCollection_from(seed, ho), ho)]
    /\ UNCHANGED ctorUnchanged

\* mark, as mark_tile_at_position calls it: for an unmarked cell of the board.
CallMark ==
    /\ result = NoResult
    /\ \E size \in PlaceSizes :
        \E free \in SUBSET Cells(size[1], size[2]) :
            \E p \in free :
                result' = [op |-> "mark",
                           board |-> BoardWithFree(size[1], size[2], free),
                           p |-> p,
                           value |-> mark(BoardWithFree(size[1], size[2], free), p)]
    /\ UNCHANGED ctorUnchanged

NextPlace == CallPlaceTile \/ CallMark

SpecPlace == InitPlace /\ [][NextPlace]_vars

----------------------------------------------------------------------------
(* cli/tiler.rs: the rounds of count_tilings_quick and generate_graph, with
   the tasks of the parallel map taken one at a time *)

\* The tasks of the parallel map of the round that have not returned: boards
\* of the stack in count_tilings_quick, positions of the stack in generate_graph.
Expanding ==
    CASE pc \in {"quick_loop", "quick_merge"} -> stack \ {t.board : t \in handles}
      [] pc = "gen" -> (1..Len(gstack)) \ {t.at : t \in handles}
      [] OTHER -> {}

\* collect() with the bug "returns with the first result".
collected_first(tasks, hs) == hs # {}

\* collect() returns: every task of the map has returned.
collected(tasks, hs) == tasks = {}

\* One task of the map of count_tilings_quick: it reads the count of its
\* board under the read lock and calls place_tile.
QuickExpandTask ==
    /\ pc \in {"quick_loop", "quick_merge"}
    /\ \E b \in Expanding :
        IF b \in DOMAIN counter /\ place_tile_asserts(b, tiles)
        THEN /\ handles' = handles \cup {expand(b, counter[b], tiles, hashOrder)}
             /\ pc' = pc
        ELSE /\ pc' = "panic"
             /\ handles' = handles
    /\ UNCHANGED <<inputVars, graph, counter, stack, step_stack, completed_board, genVars,
                   gstVars, result, quick_count, generated, pathVars>>

\* collect() has returned: the fresh step_stack and counter.
QuickCollect ==
    /\ pc = "quick_loop"
    /\ stack # {}
    /\ collected(Expanding, handles)
    /\ step_stack' = {}
    /\ counter' = <<>>
    /\ pc' = "quick_merge"
    /\ UNCHANGED <<inputVars, graph, stack, handles, completed_board, genVars, gstVars, result,
                   quick_count, generated, pathVars>>

\* One task of the map of generate_graph, for the position at of the stack:
\* it reads the board under the read lock and calls place_tile.
GenExpandTask ==
    /\ pc = "gen"
    /\ \E at \in Expanding :
        IF gen_children_asserts(g, gstack[at], tiles)
        THEN /\ handles' = handles \cup
                    {[at |-> at, board_index |-> gstack[at],
                      child_boards |-> gen_children_of(g, gstack[at], tiles, hashOrder)]}
             /\ pc' = pc
        ELSE /\ pc' = "panic"
             /\ handles' = handles
    /\ UNCHANGED <<inputVars, graph, counter, stack, step_stack, completed_board, genVars,
                   gstVars, result, quick_count, generated, pathVars>>

\* The for loop over the collected pairs, from the k-th on, in the order of the stack.
RECURSIVE GenMergeFrom(_, _, _)
GenMergeFrom(acc, hs, k) ==
    IF k > Cardinality(hs) \/ ~acc.ok THEN acc
    ELSE LET t == CHOOSE t \in hs : t.at = k
         IN  GenMergeFrom(GenChildren(acc, t.board_index, t.child_boards, 1), hs, k + 1)

\* collect() has returned: the for loop, under the write lock of the graph.
GenMerge ==
    /\ pc = "gen"
    /\ Len(gstack) > 0
    /\ collected(Expanding, handles)
    /\ LET r == GenMergeFrom([ok |-> TRUE, g |-> g, board_map |-> <<>>,
                              next_iteration |-> <<>>], handles, 1)
       IN  IF r.ok
           THEN /\ g' = r.g
                /\ gstack' = r.next_iteration
                /\ pc' = "gen"
           ELSE /\ pc' = "panic"
                /\ UNCHANGED <<g, gstack>>
    /\ handles' = {}
    /\ UNCHANGED <<inputVars, graph, counter, stack, step_stack, completed_board, gstVars,
                   result, quick_count, generated, pathVars>>

NextRound ==
    \/ QuickStart
    \/ QuickExpandTask
    \/ QuickCollect
    \/ MergeStack
    \/ MergeCounter
    \/ MergeCompleted
    \/ QuickRoundEnd
    \/ QuickFinish
    \/ GraphStart
    \/ GenExpandTask
    \/ GenMerge
    \/ GenFinish

SpecRound == InitBoard /\ [][NextRound]_vars

----------------------------------------------------------------------------
(* Claims about the graph *)

\* The indices of the arena of gr.
Indices(gr) == 0..(Len(gr.nodes_arena) - 1)

HasEdge(gr, s, t) == s \in DOMAIN gr.edges /\ t \in gr.edges[s]

\* C11: in the generated graph the edge (s, t) exists exactly when one
\* placement of a collection tile that fits on board[s] turns board[s] into
\* board[t].
C11_EdgeIffPlacement ==
    graph.some =>
        \A s, t \in Indices(graph.val) :
            HasEdge(graph.val, s, t)
                <=> OnePlacement(graph.val.nodes_arena[s + 1], graph.val.nodes_arena[t + 1], tiles)

\* C11 as amended: the edge (s, t) exists exactly when board[t] is one of
\* the boards place_tile returns for board[s].
C11_EdgeIffPlaceTile ==
    graph.some =>
        \A s, t \in Indices(graph.val) :
            HasEdge(graph.val, s, t)
                <=> graph.val.nodes_arena[t + 1]
                        \in Range(place_tile(graph.val.nodes_arena[s + 1], tiles, hashOrder))

\* C11 witness: a generated graph with a node s that has an edge to one node
\* and, to another node, a fitting placement that place_tile does not make.
C11_Witness ==
    /\ graph.some
    /\ \E s, t, u \in Indices(graph.val) :
            /\ HasEdge(graph.val, s, t)
            /\ ~HasEdge(graph.val, s, u)
            /\ OnePlacement(graph.val.nodes_arena[s + 1], graph.val.nodes_arena[u + 1], tiles)

\* C12: add_edge and mark_node_as_complete fail fast when an index they are
\* given is not in the arena, and then leave the graph unchanged.
C12_BadIndexFailsFast ==
    (result.op \in {"add_edge", "mark_node_as_complete"} /\ ~result.valid)
        => (pc = "panic" /\ ~result.changed)

----------------------------------------------------------------------------
(* Claims about assertions *)

\* The attempts place_tile makes on b that do not fit.
Misfits(b) ==
    LET s == Scan(b, tiles, 1, None, None)
        attempts == Attempts(tiles.tiles)
    IN  IF s.pruned \/ ~s.largest_position.some THEN {}
        ELSE {k \in 1..Len(attempts) :
                ~tile_fits_at_position(b, attempts[k][1], s.largest_position.val,
                                       attempts[k][2]).some}

\* C13: no run of count_tilings, graph() or get_single_tiling fails an
\* assertion: is_marked is called for cells of the board only, start_index
\* never exceeds the number of directions, add_edge is given indices of the
\* arena, and a placement that does not fit is None.
C13_NoAssertionFails == pc # "panic"

\* C13 witness: graph() has returned a graph with an edge, and place_tile
\* has tried, on the initial board, a placement that does not fit.
C13_Witness ==
    /\ result.op = "graph"
    /\ ~result.cached
    /\ result.value.edges # <<>>
    /\ Misfits(initial_board) # {}
    /\ pc = "idle"

----------------------------------------------------------------------------
(* Claims about the board constructors *)

\* The grid of b is width wide and height high, and its marked cells are
\* those of the rows 0..rows-1 in the columns of cols.
MarkedBlock(b, width, height, rows, cols) ==
    /\ b.width = width
    /\ b.height = height
    /\ DOMAIN b.board = Cells(width, height)
    /\ \A p \in DOMAIN b.board : b.board[p] <=> (p[1] < rows /\ p[2] \in cols)

\* C14: l_board(n, scale) is n * scale wide and 2 * scale high, and its
\* marked cells are exactly the top-left block, scale high and
\* (n - 1) * scale wide.
C14_LBoardTopLeft ==
    result.op = "l_board" =>
        MarkedBlock(result.value, result.n * result.scale, 2 * result.scale, result.scale,
                    0..((result.n - 1) * result.scale - 1))

\* C14 as amended: the marked cells are exactly the top-right block, scale
\* high and (n - 1) * scale wide: the columns scale..n * scale - 1.
C14_LBoardTopRight ==
    result.op = "l_board" =>
        MarkedBlock(result.value, result.n * result.scale, 2 * result.scale, result.scale,
                    result.scale..(result.n * result.scale - 1))

\* C14 witness: l_board has returned a board whose marked block is wider
\* than it is high.
C14_Witness ==
    /\ result.op = "l_board"
    /\ result.n > 2
    /\ result.scale > 1
    /\ result.value.board[<<0, result.scale>>]
    /\ ~result.value.board[<<0, 0>>]

----------------------------------------------------------------------------
(* Claims about the tile operations *)

\* C15: the collection TileCollection::from(seed) holds the seed and, with
\* each member, its rotation and its two reflections.
C15_OrbitClosed ==
    result.op = "from" =>
        LET members == Range(result.value.tiles)
        IN  /\ result.tile \in members
            /\ \A m \in members :
                /\ Tile_rotate(m) \in members
                /\ Tile_reflect(m, "Horizontal") \in members
                /\ Tile_reflect(m, "Vertical") \in members

\* C15 witness: from has returned a collection of eight tiles, which the
\* first pass of the loop does not complete.
C15_Witness ==
    /\ result.op = "from"
    /\ Cardinality(Range(result.value.tiles)) = 8
    /\ result.passes > 2

\* C16: the size of TileCollection::from(seed) divides 8, its members are
\* pairwise distinct, and the loop that builds it ends: after at most 8
\* passes.
C16_OrbitSizeDividesEight ==
    result.op = "from" =>
        /\ Len(result.value.tiles) \in {1, 2, 4, 8}
        /\ \A i, j \in 1..Len(result.value.tiles) :
                result.value.tiles[i] = result.value.tiles[j] => i = j
        /\ result.passes <= 8

\* C16 witness: from has returned a collection of 4 tiles for a seed of
\* more than one direction, after more than one pass of the loop.
C16_Witness ==
    /\ result.op = "from"
    /\ Len(result.value.tiles) = 4
    /\ Len(result.tile) > 1
    /\ result.passes > 1

\* The two cycles of the clockwise quarter turn.
Clockwise == {<<"Up", "Right", "Down", "Left">>,
              <<"UpLeft", "UpRight", "DownRight", "DownLeft">>}

\* The direction after d in its cycle.
Turned(d) ==
    LET c == CHOOSE c \in Clockwise : d \in Range(c)
        i == CHOOSE i \in 1..4 : c[i] = d
    IN  c[(i % 4) + 1]

\* C18: Tile::rotate returns a tile of the same length whose i-th direction
\* is the i-th direction of the input turned a quarter clockwise; it turns
\* [Left, Up, Left] into [Up, Right, Up]; four rotations give the input.
C18_RotateClockwise ==
    result.op = "rotate" =>
        /\ Len(result.value) = Len(result.tile)
        /\ \A i \in 1..Len(result.tile) : result.value[i] = Turned(result.tile[i])
        /\ result.tile = <<"Left", "Up", "Left">> => result.value = <<"Up", "Right", "Up">>
        /\ Tile_rotate(Tile_rotate(Tile_rotate(result.value))) = result.tile

\* C18 witness: rotate has been applied to [Left, Up, Left].
C18_Witness ==
    /\ result.op = "rotate"
    /\ result.tile = <<"Left", "Up", "Left">>
    /\ result.value = <<"Up", "Right", "Up">>

\* The step a direction makes: <<rows down, columns right>>.
StepOf(d) == move_in_direction(<<0, 0>>, d)

\* The step of d mirrored about the axis: a vertical axis exchanges left and
\* right, a horizontal one up and down.
Mirrored(d, axis) ==
    IF axis = "Vertical" THEN <<StepOf(d)[1], -StepOf(d)[2]>>
    ELSE <<-StepOf(d)[1], StepOf(d)[2]>>

----------------------------------------------------------------------------
(* Claims about tile_fits_at_position *)

\* C17: on two boards whose unmarked cells are translates of each other,
\* tile_fits_at_position succeeds for a tile, an anchor and a start_index
\* on the first exactly when it succeeds for the tile, the translated
\* anchor and the start_index on the second, and then the cells covered on
\* the second are the translates of those covered on the first.
C17_FitsTranslates ==
    result.op = "tile_fits_at_position" =>
        \A x \in DOMAIN result.value1 :
            /\ result.value1[x].some <=> result.value2[x].some
            /\ result.value1[x].some =>
                    result.value2[x].val.covered
                        = {Shifted(p, result.by) : p \in result.value1[x].val.covered}

\* C17 witness: two boards of different sizes, shifted, on which a tile of
\* two directions fits at one anchor and not at another.
C17_Witness ==
    /\ result.op = "tile_fits_at_position"
    /\ result.by \notin {<<0, 0>>}
    /\ result.first.width # result.second.width
    /\ Len(result.tile) = 2
    /\ \E x, y \in DOMAIN result.value1 :
            /\ result.value1[x].some
            /\ result.value2[x].some
            /\ ~result.value1[y].some
            /\ is_valid(result.first, y[1])
            /\ ~result.first.board[y[1]]

----------------------------------------------------------------------------
(* Claims about the cell place_tile expands *)

\* The place of the cell p in the column-major order of b: columns from the
\* left, and in a column the rows from the top.
ColumnMajor(b, p) == p[2] * b.height + p[1]

\* p is an unmarked cell of b of the highest count among the unmarked
\* cells, and the first of those in column-major order.
FirstOfHighestCount(b, p) ==
    /\ p \in Unmarked(b)
    /\ \A q \in Unmarked(b) :
        \/ b.counts[q] < b.counts[p]
        \/ b.counts[q] = b.counts[p] /\ ColumnMajor(b, p) <= ColumnMajor(b, q)

\* The boards of the two paths.
PathBoards == Range(path1) \cup Range(path2)

\* C20: when place_tile does not prune a board with an unmarked cell, the
\* cell it expands is an unmarked cell of the highest count, the first of
\* them in column-major order; every board it returns has that cell marked,
\* and the cell is the same in the two paths for equal boards.
C20_ExpandsFirstOfHighestCount ==
    \A b \in PathBoards :
        LET s == Scan(b, tiles, 1, None, None)
        IN  (~s.pruned /\ Unmarked(b) # {}) =>
                /\ s.largest_position.some
                /\ FirstOfHighestCount(b, s.largest_position.val)
                /\ \A child \in Range(place_tile(b, tiles, hashOrder)) :
                        child.board[s.largest_position.val]

\* C20 witness: a step has been made from a board on which the highest
\* count is that of several unmarked cells and the first of them by rows is
\* not the first by columns.
C20_Witness ==
    \E i \in 1..(Len(path1) - 1) :
        LET b == path1[i]
            s == Scan(b, tiles, 1, None, None)
            best == s.largest_position.val
        IN  /\ ~s.pruned
            /\ s.largest_position.some
            /\ path1[i + 1].board[best]
            /\ \E q \in Unmarked(b) :
                /\ q # best
                /\ b.counts[q] = b.counts[best]
                /\ q[1] < best[1]

----------------------------------------------------------------------------
(* Claims about pruning and the boards place_tile returns *)

\* The unmarked cells of b whose count is 4.
CountFour(b) == {p \in Unmarked(b) : b.counts[p] = 4}

\* C21: without the single-cell tile in the collection, place_tile returns
\* nothing for a board with an unmarked cell of count 4, wherever the scan
\* meets it; with the single-cell tile, a count of 4 never empties the
\* result.
C21_CountFourPrunes ==
    (result.op = "place_tile" /\ CountFour(result.board) # {}) =>
        IF result.tiles.contains_single_tile
        THEN Len(result.value) > 0
        ELSE Len(result.value) = 0

\* C21 witness: place_tile has returned nothing, without the single-cell
\* tile, for a board on which the scan meets an unmarked cell of a lower
\* count, where a tile fits, before the cell of count 4.
C21_Witness ==
    /\ result.op = "place_tile"
    /\ ~result.tiles.contains_single_tile
    /\ Len(result.value) = 0
    /\ \E p \in CountFour(result.board), q \in Unmarked(result.board) :
            /\ ColumnMajor(result.board, q) < ColumnMajor(result.board, p)
            /\ result.board.counts[q] < 4
            /\ \E t \in Range(result.tiles.tiles) :
                    tile_fits_at_position(result.board, t, q, 0).some

\* The cell the scan of place_tile ends on for the board of the call.
BestCell == Scan(result.board, result.tiles, 1, None, None)

\* The cells the k-th returned board has marked and the board of the call has not.
NewlyMarked(k) == Unmarked(result.board) \ Unmarked(result.value[k])

\* The (tile, start_index) pairs that fit at the cell p of the board of the call.
Fitting(p) ==
    {k \in 1..Len(Attempts(result.tiles.tiles)) :
        tile_fits_at_position(result.board, Attempts(result.tiles.tiles)[k][1], p,
                              Attempts(result.tiles.tiles)[k][2]).some}

\* C22: when place_tile does not prune, the cell sets its boards mark are
\* exactly the translated cell sets of collection tiles that contain the
\* best cell and lie on unmarked cells of the board; each gives one board,
\* so the boards are pairwise distinct; and the boards are the same for
\* another order of the collection and of the covered cells.
C22_SuccessorsComplete ==
    (result.op = "place_tile" /\ ~BestCell.pruned /\ BestCell.largest_position.some) =>
        LET placements == PlacementsAt(Unmarked(result.board), Shapes(result.tiles),
                                       BestCell.largest_position.val)
        IN  /\ {NewlyMarked(k) : k \in 1..Len(result.value)} = placements
            /\ Len(result.value) = Cardinality(placements)
            /\ \A i, j \in 1..Len(result.value) :
                    result.value[i] = result.value[j] => i = j
            /\ Range(place_tile(result.board, TileCollection_new(Reverse(result.tiles.tiles)),
                                1 - result.ho))
                    = Range(result.value)

\* C22 witness: place_tile has returned several boards, fewer than the
\* (tile, start_index) pairs that fit at the best cell.
C22_Witness ==
    /\ result.op = "place_tile"
    /\ ~BestCell.pruned
    /\ BestCell.largest_position.some
    /\ Len(result.value) > 1
    /\ Cardinality(Fitting(BestCell.largest_position.val)) > Len(result.value)

\* C23: every board place_tile returns has the dimensions of the board of
\* the call and, marked, the cells that board has marked and the cells of
\* one placement of a collection tile, all unmarked before and the best
\* cell among them: strictly more marked cells.  The board of the call is
\* borrowed immutably; each returned board is a clone marked on its own.
C23_ChildIsParentPlusPlacement ==
    result.op = "place_tile" =>
        \A k \in 1..Len(result.value) :
            /\ result.value[k].width = result.board.width
            /\ result.value[k].height = result.board.height
            /\ DOMAIN result.value[k].board = DOMAIN result.board.board
            /\ Unmarked(result.value[k]) \subseteq Unmarked(result.board)
            /\ NewlyMarked(k) \in AllPlacements(Unmarked(result.board), Shapes(result.tiles))
            /\ BestCell.largest_position.val \in NewlyMarked(k)
            /\ Cardinality(Unmarked(result.value[k])) < Cardinality(Unmarked(result.board))

\* C23 witness: place_tile has returned several boards for a board with
\* marked cells, each with a placement of more than one cell.
C23_Witness ==
    /\ result.op = "place_tile"
    /\ Len(result.value) > 2
    /\ Unmarked(result.board) # DOMAIN result.board.board
    /\ \A k \in 1..Len(result.value) : Cardinality(NewlyMarked(k)) > 1

\* C24: mark(p) sets board[p], adds exactly 1 to the count of each cardinal
\* neighbour of p on the board, marked or not, and changes no other count
\* and no other cell; so no count of a board place_tile returns is lower
\* than in the board of the call.
C24_MarkBumpsNeighbours ==
    /\ result.op = "mark" =>
        /\ result.value.width = result.board.width
        /\ result.value.height = result.board.height
        /\ DOMAIN result.value.board = DOMAIN result.board.board
        /\ DOMAIN result.value.counts = DOMAIN result.board.counts
        /\ \A q \in DOMAIN result.board.board :
            /\ result.value.board[q] = (q = result.p \/ result.board.board[q])
            /\ result.value.counts[q]
                = result.board.counts[q] + (IF q \in Neighbours(result.p) THEN 1 ELSE 0)
    /\ result.op = "place_tile" =>
        \A k \in 1..Len(result.value) :
            \A q \in DOMAIN result.board.counts :
                result.value[k].counts[q] >= result.board.counts[q]

\* C24 witness: mark has been applied to a cell with a marked neighbour, an
\* unmarked neighbour, a neighbour off the board and a diagonal neighbour.
C24_Witness ==
    /\ result.op = "mark"
    /\ \E q \in Neighbours(result.p) : is_valid(result.board, q) /\ result.board.board[q]
    /\ \E q \in Neighbours(result.p) : is_valid(result.board, q) /\ ~result.board.board[q]
    /\ \E q \in Neighbours(result.p) : ~is_valid(result.board, q)
    /\ is_valid(result.board, <<result.p[1] + 1, result.p[2] + 1>>)

----------------------------------------------------------------------------
(* Claims about the rounds *)

\* The number of sequences of place_tile steps that lead from the board a to the board b.
RECURSIVE PathsTo(_, _, _, _)
PathsTo(a, b, tile_collection, ho) ==
    IF a = b THEN 1
    ELSE IF Cardinality(Unmarked(a)) <= Cardinality(Unmarked(b)) THEN 0
    ELSE LET boards == place_tile(a, tile_collection, ho)
             sub == [k \in 1..Len(boards) |-> PathsTo(boards[k], b, tile_collection, ho)]
         IN  SumOver(sub, 1..Len(boards))

\* A step writes the count map, the next frontier, the completed list or the graph.
MergeWrite ==
    \/ counter' # counter
    \/ step_stack' # step_stack
    \/ completed_board' # completed_board
    \/ g' # g

\* C25: in count_tilings_quick and generate_graph no write to the count
\* map, the next frontier, the completed list or the graph happens while a
\* task of the expansion phase of the round has not returned, and the count
\* a task of count_tilings_quick reads for its board holds the
\* contributions of all parents of the board: it is the number of
\* sequences of placements that lead to the board.
C25_PhasesDoNotOverlap ==
    /\ [][MergeWrite => Expanding = {}]_vars
    /\ [](pc = "quick_loop" =>
            \A b \in stack :
                /\ b \in DOMAIN counter
                /\ counter[b] = PathsTo(initial_board, b, tiles, hashOrder))

\* C25 witness: in a round of count_tilings_quick one task has returned,
\* another has not, and its board has several parents.
C25_Witness ==
    /\ pc = "quick_loop"
    /\ handles # {}
    /\ \E b \in Expanding : counter[b] > 1

\* C26: in generate_graph the working list of a round holds every node
\* index at most once, so no board of the arena is expanded twice.
C26_WorkListDistinct ==
    pc = "gen" => \A i, j \in 1..Len(gstack) : gstack[i] = gstack[j] => i = j

\* The nodes whose board has the board of node t among the boards place_tile returns.
Parents(gr, t) ==
    {s \in Indices(gr) :
        gr.nodes_arena[t + 1] \in Range(place_tile(gr.nodes_arena[s + 1], tiles, hashOrder))}

\* C27: after generate_graph no two indices of the arena hold equal
\* boards, index 0 holds the initial board, and a board with several
\* parents has one index and one reverse edge for each parent.
C27_OneIndexPerBoard ==
    graph.some =>
        /\ graph.val.nodes_arena[1] = initial_board
        /\ \A i, j \in Indices(graph.val) :
                graph.val.nodes_arena[i + 1] = graph.val.nodes_arena[j + 1] => i = j
        /\ \A t \in Indices(graph.val) :
                /\ Parents(graph.val, t) # {} <=> t \in DOMAIN graph.val.rev_edges
                /\ t \in DOMAIN graph.val.rev_edges
                        => graph.val.rev_edges[t] = Parents(graph.val, t)

\* C27 witness: a generated graph with a board that has several parents.
C27_Witness ==
    /\ graph.some
    /\ \E t \in Indices(graph.val) : Cardinality(Parents(graph.val, t)) > 1

\* C28: after generate_graph complete_indices holds at most one index, so
\* get_complete_index has one possible answer and the value of
\* count_tilings_from_graph does not depend on the index picked.
C28_OneCompleteIndex ==
    graph.some =>
        /\ Cardinality(graph.val.complete_indices) <= 1
        /\ Cardinality(get_complete_index(graph.val)) = 1
        /\ \A a, b \in get_complete_index(graph.val) :
                count_tilings_from_graph(graph.val, a, hashOrder)
                    = count_tilings_from_graph(graph.val, b, hashOrder)

\* C28 witness: a generated graph whose completed node was marked complete
\* from several parents.
C28_Witness ==
    /\ graph.some
    /\ \E c \in graph.val.complete_indices :
            /\ c \in DOMAIN graph.val.rev_edges
            /\ Cardinality(graph.val.rev_edges[c]) > 1

\* The round of count_tilings_quick that is being merged has produced a terminal board.
TerminalProduced ==
    \/ completed_board # <<>>
    \/ \E t \in handles : t.completed_boards # {}

\* C29: in count_tilings_quick a round that produces a terminal board
\* produces no board for the next frontier, so it is the last round; when
\* the loop ends the count map holds the last recorded terminal board, and
\* the value returned is the count that round has accumulated for it, the
\* number of placement sequences that lead to it; it is 0 when no terminal
\* board was recorded.
C29_TerminalOnlyInLastRound ==
    /\ []((pc = "quick_merge" /\ TerminalProduced)
            => \A t \in handles : t.next_boards = {})
    /\ []((pc = "quick_loop" /\ stack = {} /\ completed_board # <<>>)
            => /\ Last(completed_board) \in DOMAIN counter
               /\ counter[Last(completed_board)]
                    = PathsTo(initial_board, Last(completed_board), tiles, hashOrder))
    /\ [][(pc = "quick_loop" /\ stack = {})
            => /\ pc' = "idle"
               /\ result'.op = "count_tilings_quick"
               /\ result'.value = IF completed_board = <<>> THEN 0
                                  ELSE counter[Last(completed_board)]]_vars

\* C29 witness: the loop of count_tilings_quick has ended with a terminal
\* board recorded by several merge tasks, and its count is above 1.
C29_Witness ==
    /\ pc = "quick_loop"
    /\ stack = {}
    /\ Len(completed_board) > 1
    /\ counter[Last(completed_board)] > 1

----------------------------------------------------------------------------
(* Claims about termination *)

\* The number of rounds of generate_graph before the one that added node i.
RECURSIVE Depth(_, _)
Depth(gr, i) ==
    IF i = 0 \/ i \notin DOMAIN gr.rev_edges THEN 0
    ELSE LET above == {Depth(gr, s) : s \in gr.rev_edges[i]}
         IN  1 + CHOOSE m \in above : \A x \in above : x <= m

\* The board c has every marked cell of b and at least one more.
MoreMarked(c, b) ==
    /\ Unmarked(c) \subseteq Unmarked(b)
    /\ Unmarked(c) # Unmarked(b)

\* C30: count_tilings_quick, generate_graph and get_single_tiling end,
\* whatever the board and the collection: a search that has been started
\* returns (or panics); every board of the next frontier has strictly more
\* marked cells than a board of the frontier it comes from; the round of
\* generate_graph that is run next is at most the number of initially
\* unmarked cells; and a step of get_single_tiling pops one sequence and
\* pushes only sequences that end in a board with more marked cells, none
\* longer than the number of initially unmarked cells.
C30_SearchesTerminate ==
    /\ (pc # "idle") ~> (pc \in {"idle", "panic"})
    /\ [][(pc = "quick_merge" /\ pc' = "quick_loop")
            => \A c \in stack' : \E b \in stack : MoreMarked(c, b)]_vars
    /\ [][(pc = "gen" /\ pc' = "gen")
            => \A k \in 1..Len(gstack') : \E j \in 1..Len(gstack) :
                    MoreMarked(g'.nodes_arena[gstack'[k] + 1], g.nodes_arena[gstack[j] + 1])]_vars
    /\ [](pc = "gen" =>
            \A k \in 1..Len(gstack) :
                Depth(g, gstack[k]) + 1 <= Cardinality(Unmarked(initial_board)))
    /\ [][(pc = "gst" /\ pc' \in {"gst", "gst_select"})
            => \A k \in 1..Len(tstack') :
                    \/ k < Len(tstack) /\ tstack'[k] = tstack[k]
                    \/ MoreMarked(Last(tstack'[k]), Last(Last(tstack)))]_vars
    /\ [](pc = "gst" =>
            \A k \in 1..Len(tstack) :
                Len(tstack[k]) <= Cardinality(Unmarked(initial_board)))

\* C30 witness: get_single_tiling has returned without a tiling after its
\* stack had emptied, for a collection that from does not build.
C30_Witness ==
    /\ pc = "idle"
    /\ tiles \in OtherCollections
    /\ result.op = "get_single_tiling"
    /\ result.limit > 0
    /\ ~result.value.some

====
